---- MODULE Spec2Model ----
(***************************************************************************)
(* The conversational turn pipeline of langgraph-mem0 (src/main.py):       *)
(* MemoryAgent's sanitizer, memory-content validator, sliding-window rate  *)
(* limiter and the two graph nodes retrieve_memory -> generate_response.   *)
(*                                                                         *)
(* A Python str is a sequence of one-character strings; a Python value     *)
(* that may or may not be a str is a record [isstr, val].  Time is         *)
(* time.time() in whole seconds.                                           *)
(***************************************************************************)
EXTENDS Integers, Sequences, FiniteSets, TLC

(***************************************************************************)
(* Program constants                                                       *)
(***************************************************************************)
max_input_length == 10000
max_memory_length == 5000
requests_per_minute == 20
requests_per_hour == 100
MinuteHorizon == 60
HourHorizon == 3600
TopMemories == 3

(***************************************************************************)
(* Characters and the character classes of the regular expressions         *)
(***************************************************************************)
UpperLetters ==
    << "A","B","C","D","E","F","G","H","I","J","K","L","M",
       "N","O","P","Q","R","S","T","U","V","W","X","Y","Z" >>
LowerLetters ==
    << "a","b","c","d","e","f","g","h","i","j","k","l","m",
       "n","o","p","q","r","s","t","u","v","w","x","y","z" >>
Digits == {"0","1","2","3","4","5","6","7","8","9"}

Range(s) == {s[i] : i \in 1..Len(s)}

Min(a, b) == IF a < b THEN a ELSE b

\* [\x00-\x1f\x7f-\x9f]: the members of the class that the inputs use
\* (NUL, TAB, LF, CR, ESC, DEL, NEL).
ControlChars == {"NUL", "\t", "\n", "\r", "ESC", "DEL", "NEL"}

\* \w of a str pattern: letters, digits and the underscore.
WordChars == Range(UpperLetters) \cup Range(LowerLetters) \cup Digits \cup {"_"}

\* \s, and what str.strip() removes: of the whitespace characters only the
\* ones outside the control range survive the first substitution
\* (space, NBSP = U+00A0).
SpaceChars == {" ", "NBSP"}

\* re.IGNORECASE compares case-folded characters.
LowerOf == [c \in Range(UpperLetters) |->
               LowerLetters[CHOOSE i \in 1..26 : UpperLetters[i] = c]]

Lower(c) == IF c \in DOMAIN LowerOf THEN LowerOf[c] ELSE c

\* html.escape(s, quote=True), one character.
EscapeChar(c) ==
    CASE c = "&"  -> << "&","a","m","p",";" >>
      [] c = "<"  -> << "&","l","t",";" >>
      [] c = ">"  -> << "&","g","t",";" >>
      [] c = "\"" -> << "&","q","u","o","t",";" >>
      [] c = "'"  -> << "&","#","x","2","7",";" >>
      [] OTHER    -> << c >>

\* The concatenation of f(s[lo]), ..., f(s[hi]), by halving so that long
\* strings need only logarithmic depth.
RECURSIVE FlatMap(_, _, _, _)
FlatMap(f(_), s, lo, hi) ==
    IF lo > hi THEN << >>
    ELSE IF lo = hi THEN f(s[lo])
    ELSE LET mid == (lo + hi) \div 2
         IN  FlatMap(f, s, lo, mid) \o FlatMap(f, s, mid + 1, hi)

\* re.sub(r'[\x00-\x1f\x7f-\x9f]', '', text)
StripControl(s) == SelectSeq(s, LAMBDA c : c \notin ControlChars)

\* html.escape(sanitized, quote=True)
HtmlEscape(s) == FlatMap(EscapeChar, s, 1, Len(s))

(***************************************************************************)
(* The five dangerous patterns.  Each Match operator gives the length of   *)
(* the match of its pattern that starts at position i, 0 when there is     *)
(* none (no pattern matches the empty string).                             *)
(***************************************************************************)
\* The literal lit (given in lower case) at position i, ignoring case.
LitAt(s, i, lit) ==
    /\ Lower(s[i]) = lit[1]
    /\ i + Len(lit) - 1 <= Len(s)
    /\ \A k \in 2..Len(lit) : Lower(s[i + k - 1]) = lit[k]

\* The first position >= i whose character is not in the class cls
\* (Len(s) + 1 when the run goes to the end): the end of a greedy cls*.
RunEnd(s, i, cls) ==
    IF \E j \in i..Len(s) : s[j] \notin cls
    THEN CHOOSE j \in i..Len(s) :
            /\ s[j] \notin cls
            /\ \A k \in i..(j - 1) : s[k] \in cls
    ELSE Len(s) + 1

\* The first position >= i with character c (0 when there is none).
FirstChar(s, i, c) ==
    IF \E j \in i..Len(s) : s[j] = c
    THEN CHOOSE j \in i..Len(s) : s[j] = c /\ \A k \in i..(j - 1) : s[k] # c
    ELSE 0

\* The first position >= i where lit occurs ignoring case (0 when none).
FirstLit(s, i, lit) ==
    IF \E j \in i..Len(s) : LitAt(s, j, lit)
    THEN CHOOSE j \in i..Len(s) :
            LitAt(s, j, lit) /\ \A k \in i..(j - 1) : ~LitAt(s, k, lit)
    ELSE 0

\* The literal parts of the patterns, in lower case.
LitScriptOpen == << "<","s","c","r","i","p","t" >>
LitScriptClose == << "<","/","s","c","r","i","p","t",">" >>
LitJavascript == << "j","a","v","a","s","c","r","i","p","t",":" >>
LitOn == << "o","n" >>
LitEval == << "e","v","a","l" >>
LitExec == << "e","x","e","c" >>

\* r'<script[^>]*>[\s\S]*?</script>': [^>]* stops at the first '>', and
\* the lazy [\s\S]*? at the first '</script>' after it.
MatchScript(s, i) ==
    IF ~LitAt(s, i, LitScriptOpen) THEN 0
    ELSE LET gt == FirstChar(s, i + Len(LitScriptOpen), ">")
         IN  IF gt = 0 THEN 0
             ELSE LET close == FirstLit(s, gt + 1, LitScriptClose)
                  IN  IF close = 0 THEN 0 ELSE close + Len(LitScriptClose) - i

\* r'javascript:'
MatchJavascript(s, i) ==
    IF LitAt(s, i, LitJavascript) THEN Len(LitJavascript) ELSE 0

\* r'on\w+\s*=': \w+ and \s* are greedy, and giving back a word character
\* never helps (what follows must be a space or '='), so the match is the
\* maximal word run, the maximal space run and '='.
MatchOnHandler(s, i) ==
    IF ~LitAt(s, i, LitOn) THEN 0
    ELSE LET w  == RunEnd(s, i + 2, WordChars)
             sp == RunEnd(s, w, SpaceChars)
         IN  IF w > i + 2 /\ sp <= Len(s) /\ s[sp] = "=" THEN sp + 1 - i ELSE 0

\* r'eval\s*\(' and r'exec\s*\(': the word, a maximal space run and '('.
MatchCall(s, i, word) ==
    IF ~LitAt(s, i, word) THEN 0
    ELSE LET sp == RunEnd(s, i + Len(word), SpaceChars)
         IN  IF sp <= Len(s) /\ s[sp] = "(" THEN sp + 1 - i ELSE 0

MatchEval(s, i) == MatchCall(s, i, LitEval)
MatchExec(s, i) == MatchCall(s, i, LitExec)

\* re.sub(pattern, '', s): scan from the left, delete each leftmost match
\* and go on after it; the text already scanned is not scanned again.
RECURSIVE RemoveFrom(_, _, _)
RemoveFrom(M(_, _), s, pos) ==
    IF \E j \in pos..Len(s) : M(s, j) > 0
    THEN LET j == CHOOSE j \in pos..Len(s) :
                     M(s, j) > 0 /\ \A k \in pos..(j - 1) : M(s, k) = 0
         IN  SubSeq(s, pos, j - 1) \o RemoveFrom(M, s, j + M(s, j))
    ELSE SubSeq(s, pos, Len(s))

ReSub(M(_, _), s) == RemoveFrom(M, s, 1)

\* for pattern in dangerous_patterns: sanitized = re.sub(pattern, '', ...)
RemoveDangerous(s) ==
    ReSub(MatchExec,
      ReSub(MatchEval,
        ReSub(MatchOnHandler,
          ReSub(MatchJavascript,
            ReSub(MatchScript, s)))))

\* str.strip()
Strip(s) ==
    IF \A j \in 1..Len(s) : s[j] \in SpaceChars THEN << >>
    ELSE LET a == CHOOSE j \in 1..Len(s) :
                     s[j] \notin SpaceChars /\ \A k \in 1..(j - 1) : s[k] \in SpaceChars
             b == CHOOSE j \in 1..Len(s) :
                     s[j] \notin SpaceChars /\ \A k \in (j + 1)..Len(s) : s[k] \in SpaceChars
         IN  SubSeq(s, a, b)

(***************************************************************************)
(* Python values and exceptions                                            *)
(***************************************************************************)
\* A value that is a str, and one that is not (a list of content parts, a
\* number, None): isinstance(text, str) is the field isstr.
PyStr(s) == [isstr |-> TRUE, val |-> s]
NotStr == [isstr |-> FALSE, val |-> << >>]

\* What a call ends with: "none" is a normal return, the others name the
\* class of the exception raised.
ExcKinds == {"ValueError", "Exception"}

\* Mutant of ExceptSearchError: the clause catches ValueError only.
ExceptSearchError_Narrow(exc) == exc = "ValueError"

\* Mutant of ExceptMessageError: the clause is missing.
ExceptMessageError_Missing(exc) == FALSE

\* Mutant of ExceptGenerationError: the clause catches ValueError only.
ExceptGenerationError_Narrow(exc) == exc = "ValueError"

\* Mutant of ExceptQueryError: the clause is missing.
ExceptQueryError_Missing(exc) == FALSE

\* The except clauses of the two nodes: whether the clause catches exc.
\* ValueError is a subclass of Exception.
\* retrieve_memory, `except ValueError as e` around the query's sanitization
ExceptQueryError(exc) == exc = "ValueError"
\* retrieve_memory, `except Exception as e` around search and validation
ExceptSearchError(exc) == exc \in {"ValueError", "Exception"}
\* generate_response, `except ValueError as e` around the message's sanitization
ExceptMessageError(exc) == exc = "ValueError"
\* generate_response, `except ValueError as e` around validation and storage
ExceptStoreError(exc) == exc = "ValueError"
\* generate_response, `except Exception as e` around the LLM call and the storage
ExceptGenerationError(exc) == exc \in {"ValueError", "Exception"}

(***************************************************************************)
(* MemoryAgent._sanitize_input and MemoryAgent._validate_memory_content    *)
(***************************************************************************)
TruncationMarker == << ".",".",".","[","t","r","u","n","c","a","t","e","d","]" >>

\* len(text) > self.max_input_length
TooLong(s) == Len(s) > max_input_length

\* The result is [exc, val, warned]: the exception raised ("none" when it
\* returns), the returned str, and whether the "Input sanitization applied"
\* warning was written to the security log.
sanitize_input(text) ==
    IF ~text.isstr THEN [exc |-> "ValueError", val |-> << >>, warned |-> FALSE]
    ELSE IF TooLong(text.val)
    THEN [exc |-> "ValueError", val |-> << >>, warned |-> FALSE]
    ELSE LET sanitized == RemoveDangerous(HtmlEscape(StripControl(text.val)))
         IN  [exc |-> "none", val |-> Strip(sanitized),
              warned |-> (sanitized # text.val)]

\* Mutant of Truncate: the marker is not appended.
Truncate_NoMarker(s) ==
    IF Len(s) > max_memory_length THEN SubSeq(s, 1, max_memory_length) ELSE s

\* content[:self.max_memory_length] + "...[truncated]"
Truncate(s) ==
    IF Len(s) > max_memory_length
    THEN SubSeq(s, 1, max_memory_length) \o TruncationMarker
    ELSE s

validate_memory_content(content) ==
    IF ~content.isstr THEN [exc |-> "ValueError", val |-> << >>, warned |-> FALSE]
    ELSE sanitize_input(PyStr(Truncate(content.val)))

(***************************************************************************)
(* MemoryAgent._check_rate_limit                                           *)
(***************************************************************************)
\* defaultdict(lambda: {'minute': deque(), 'hour': deque()})
EmptyUserData == [minute |-> << >>, hour |-> << >>]

\* Mutant of Expired: the comparison is >= instead of >.
Expired_AtHorizon(current_time, entry, horizon) == current_time - entry >= horizon

\* current_time - q[0] > horizon
Expired(current_time, entry, horizon) == current_time - entry > horizon

\* Mutant of Evict: the loops are missing.
Evict_Nothing(q, current_time, horizon) == q

\* Mutant of Evict: `if` in place of `while`, at most one entry is evicted.
Evict_Once(q, current_time, horizon) ==
    IF Len(q) > 0 /\ current_time - q[1] > horizon THEN Tail(q) ELSE q

\* while q and current_time - q[0] > horizon: q.popleft()
\* Only the head is tested: the loop stops at the first entry that has not
\* expired, whatever follows it.
Evict(q, current_time, horizon) ==
    IF \A j \in 1..Len(q) : Expired(current_time, q[j], horizon) THEN << >>
    ELSE LET j == CHOOSE j \in 1..Len(q) :
                     /\ ~Expired(current_time, q[j], horizon)
                     /\ \A k \in 1..(j - 1) : Expired(current_time, q[k], horizon)
         IN  SubSeq(q, j, Len(q))

\* Mutant of MinuteFull: the comparison is > instead of >=.
MinuteFull_OffByOne(minute) == Len(minute) > requests_per_minute

\* len(user_data['minute']) >= self.rate_limits['requests_per_minute']
MinuteFull(minute) == Len(minute) >= requests_per_minute

\* len(user_data['hour']) >= self.rate_limits['requests_per_hour']
HourFull(hour) == Len(hour) >= requests_per_hour

\* Mutant of Rejected: the attempt is recorded before it is refused.
Rejected_Recorded(cleaned, current_time) ==
    [minute |-> Append(cleaned.minute, current_time),
     hour   |-> Append(cleaned.hour, current_time)]

\* Mutant of Recorded: the request is added at the head of the queues.
Recorded_AtHead(cleaned, current_time) ==
    [minute |-> << current_time >> \o cleaned.minute,
     hour   |-> << current_time >> \o cleaned.hour]

\* Mutant of Recorded: the request is added to the minute queue only.
Recorded_MinuteOnly(cleaned, current_time) ==
    [minute |-> Append(cleaned.minute, current_time),
     hour   |-> cleaned.hour]

\* Mutant of Recorded: the request is added twice.
Recorded_Twice(cleaned, current_time) ==
    [minute |-> cleaned.minute \o << current_time, current_time >>,
     hour   |-> cleaned.hour \o << current_time, current_time >>]

\* What a call leaves in the queues when it rejects (return False, lines
\* 168-174) and when it admits (lines 177-180).
Rejected(cleaned, current_time) == cleaned
Recorded(cleaned, current_time) ==
    [minute |-> Append(cleaned.minute, current_time),
     hour   |-> Append(cleaned.hour, current_time)]

\* The result is [ok, data]: the value returned and the user's queues after
\* the call.
check_rate_limit(user_data, current_time) ==
    LET cleaned == [minute |-> Evict(user_data.minute, current_time, MinuteHorizon),
                    hour   |-> Evict(user_data.hour, current_time, HourHorizon)]
    IN  IF MinuteFull(cleaned.minute)
        THEN [ok |-> FALSE, data |-> Rejected(cleaned, current_time)]
        ELSE IF HourFull(cleaned.hour)
        THEN [ok |-> FALSE, data |-> Rejected(cleaned, current_time)]
        ELSE [ok |-> TRUE, data |-> Recorded(cleaned, current_time)]

(***************************************************************************)
(* The three fixed replies                                                 *)
(***************************************************************************)
\* main.py 240
RateLimitMessage ==
    << "I"," ","a","p","o","l","o","g","i","z","e",","," ","b","u","t"," ",
       "y","o","u","'","v","e"," ","e","x","c","e","e","d","e","d"," ","t",
       "h","e"," ","r","a","t","e"," ","l","i","m","i","t","."," ","P","l",
       "e","a","s","e"," ","w","a","i","t"," ","a"," ","m","o","m","e","n",
       "t"," ","b","e","f","o","r","e"," ","s","e","n","d","i","n","g"," ",
       "a","n","o","t","h","e","r"," ","m","e","s","s","a","g","e","." >>

\* main.py 257
InvalidContentMessage ==
    << "I","'","m"," ","s","o","r","r","y",","," ","b","u","t"," ","y","o",
       "u","r"," ","m","e","s","s","a","g","e"," ","c","o","n","t","a","i",
       "n","s"," ","i","n","v","a","l","i","d"," ","c","o","n","t","e","n",
       "t","."," ","P","l","e","a","s","e"," ","t","r","y"," ","a","g","a",
       "i","n"," ","w","i","t","h"," ","a"," ","d","i","f","f","e","r","e",
       "n","t"," ","m","e","s","s","a","g","e","." >>

\* main.py 302
TechnicalDifficultiesMessage ==
    << "I"," ","a","p","o","l","o","g","i","z","e",","," ","b","u","t"," ",
       "I","'","m"," ","e","x","p","e","r","i","e","n","c","i","n","g"," ",
       "t","e","c","h","n","i","c","a","l"," ","d","i","f","f","i","c","u",
       "l","t","i","e","s","."," ","P","l","e","a","s","e"," ","t","r","y",
       " ","a","g","a","i","n"," ","l","a","t","e","r","." >>

(***************************************************************************)
(* The two nodes of the graph, as functions of the turn state and of what  *)
(* the collaborators answer.  A collaborator's answer is a record with the *)
(* field exc: "none" when the call returns, else the class of what it      *)
(* raises.                                                                 *)
(***************************************************************************)
Message(role, content) == [role |-> role, content |-> content]

\* state["messages"][-1].content if state["messages"] else ""
LastContent(messages) ==
    IF Len(messages) > 0 THEN messages[Len(messages)].content ELSE PyStr(<< >>)

\* state.get("memory_retrieved", {}) of a state retrieve_memory has not
\* written yet.
NoSnapshot == [set |-> FALSE, memories |-> << >>, count |-> 0, rate_limited |-> FALSE]

\* Mutant of RateLimitedSnapshot: the flag is not set.
RateLimitedSnapshot_Unmarked ==
    [set |-> TRUE, memories |-> << >>, count |-> 0, rate_limited |-> FALSE]

\* {"memories": [], "count": 0, "rate_limited": True}
RateLimitedSnapshot ==
    [set |-> TRUE, memories |-> << >>, count |-> 0, rate_limited |-> TRUE]

\* {"memories": [], "count": 0}
EmptySnapshot ==
    [set |-> TRUE, memories |-> << >>, count |-> 0, rate_limited |-> FALSE]

\* {"memories": memories, "count": len(memories)}
Snapshot(memories) ==
    [set |-> TRUE, memories |-> memories, count |-> Len(memories),
     rate_limited |-> FALSE]

\* isinstance(memory, dict) and 'memory' in memory
HasMemory(memory) == memory.isdict /\ memory.has_memory

\* Mutant of ValidatedMemories: the validated content is not written into
\* the copy.
ValidatedMemories_Unvalidated(results) ==
    SelectSeq(results,
              LAMBDA m : HasMemory(m) /\ validate_memory_content(m.memory).exc = "none")

\* The loop over the search results (lines 205-217): a record that is a
\* dict with the key 'memory' is copied with its content validated,
\*     validated_memory = memory.copy(); validated_memory['memory'] = validated_content
\* unless the validation raises ValueError, which drops the record.
ValidatedMemories(results) ==
    LET checked == [i \in 1..Len(results) |->
                      IF HasMemory(results[i])
                      THEN validate_memory_content(results[i].memory)
                      ELSE [exc |-> "skipped", val |-> << >>, warned |-> FALSE]]
        copies == [i \in 1..Len(results) |->
                      [keep   |-> checked[i].exc = "none",
                       memory |-> [results[i] EXCEPT !.memory = PyStr(checked[i].val)]]]
        kept == SelectSeq(copies, LAMBDA c : c.keep)
    IN  [i \in 1..Len(kept) |-> kept[i].memory]

\* retrieve_memory from line 195 on: query is what the sanitization of the
\* last message ended with, search what self.memory.search answers.
SearchMemory(query, search) ==
    IF query.exc # "none"
    THEN IF ExceptQueryError(query.exc)
         THEN [exc |-> "none", memory_retrieved |-> EmptySnapshot,
               calls |-> << "admit" >>, query |-> << >>]
         ELSE [exc |-> query.exc, memory_retrieved |-> NoSnapshot,
               calls |-> << "admit" >>, query |-> << >>]
    ELSE IF search.exc # "none"
    THEN IF ExceptSearchError(search.exc)
         THEN [exc |-> "none", memory_retrieved |-> Snapshot(<< >>),
               calls |-> << "admit", "search" >>, query |-> query.val]
         ELSE [exc |-> search.exc, memory_retrieved |-> NoSnapshot,
               calls |-> << "admit", "search" >>, query |-> query.val]
    ELSE [exc |-> "none",
          memory_retrieved |-> Snapshot(ValidatedMemories(search.results)),
          calls |-> << "admit", "search" >>, query |-> query.val]

\* The result is [exc, memory_retrieved, calls, query]: the exception that
\* leaves the node ("none" when it returns), the update it returns, the
\* collaborators it called, in order, and the query it searched for.
retrieve_memory(st, admit, search) ==
    IF ~admit
    THEN [exc |-> "none", memory_retrieved |-> RateLimitedSnapshot,
          calls |-> << "admit" >>, query |-> << >>]
    ELSE SearchMemory(sanitize_input(LastContent(st.messages)), search)

\* for mem in memories[:3]: memory_context += f"- {mem.get('memory', '')}\n"
MemoryContext(memories) ==
    [i \in 1..Min(Len(memories), TopMemories) |-> memories[i].memory]

NoStore == [user |-> << >>, assistant |-> << >>]

\* What the try block around the storage (lines 277-290) ends with, given
\* what the two validations ended with: self.memory.add is reached only
\* when neither validation raised.
StoreValidated(sanitized_response, sanitized_user_message, add) ==
    IF sanitized_response.exc # "none"
    THEN [exc |-> sanitized_response.exc, called |-> FALSE, stored |-> NoStore]
    ELSE IF sanitized_user_message.exc # "none"
    THEN [exc |-> sanitized_user_message.exc, called |-> FALSE, stored |-> NoStore]
    ELSE [exc |-> add.exc, called |-> TRUE,
          stored |-> [user |-> sanitized_user_message.val,
                      assistant |-> sanitized_response.val]]

StoreAttempt(last_message, assistant_message, add) ==
    StoreValidated(validate_memory_content(assistant_message),
                   validate_memory_content(PyStr(last_message)), add)

Reply(content, calls, llm_args, stored) ==
    [exc |-> "none", messages |-> << Message("assistant", content) >>,
     calls |-> calls, llm_args |-> llm_args, stored |-> stored]

Raises(exc, calls, llm_args) ==
    [exc |-> exc, messages |-> << >>, calls |-> calls, llm_args |-> llm_args,
     stored |-> NoStore]

NoLlmArgs == [context |-> << >>, content |-> << >>]

\* The collaborators generate_response has called once the storage was
\* attempted.
StoreCalls(store) == IF store.called THEN << "llm", "add" >> ELSE << "llm" >>

\* Mutant of CallLlm: the storage is attempted also when the LLM call
\* raised.
CallLlm_StoresOnFailure(llm_args, llm, store) ==
    IF llm.exc # "none"
    THEN IF ExceptGenerationError(llm.exc)
         THEN Reply(PyStr(TechnicalDifficultiesMessage), StoreCalls(store), llm_args,
                    store.stored)
         ELSE Raises(llm.exc, StoreCalls(store), llm_args)
    ELSE IF store.exc = "none"
    THEN Reply(llm.reply, StoreCalls(store), llm_args, store.stored)
    ELSE IF ExceptStoreError(store.exc)
    THEN Reply(llm.reply, StoreCalls(store), llm_args, NoStore)
    ELSE IF ExceptGenerationError(store.exc)
    THEN Reply(PyStr(TechnicalDifficultiesMessage), StoreCalls(store), llm_args, NoStore)
    ELSE Raises(store.exc, StoreCalls(store), llm_args)

\* The outer try block (lines 266-305): llm is what messages.create
\* answers, store what the inner try block ends with.
CallLlm(llm_args, llm, store) ==
    IF llm.exc # "none"
    THEN IF ExceptGenerationError(llm.exc)
         THEN Reply(PyStr(TechnicalDifficultiesMessage), << "llm" >>, llm_args, NoStore)
         ELSE Raises(llm.exc, << "llm" >>, llm_args)
    ELSE IF store.exc = "none"
    THEN Reply(llm.reply, StoreCalls(store), llm_args, store.stored)
    ELSE IF ExceptStoreError(store.exc)
    THEN Reply(llm.reply, StoreCalls(store), llm_args, NoStore)
    ELSE IF ExceptGenerationError(store.exc)
    THEN Reply(PyStr(TechnicalDifficultiesMessage), StoreCalls(store), llm_args, NoStore)
    ELSE Raises(store.exc, StoreCalls(store), llm_args)

\* generate_response from line 243 on: last_message is what the
\* sanitization of the last message ended with.
RespondTo(memories, last_message, llm, add) ==
    IF last_message.exc # "none"
    THEN IF ExceptMessageError(last_message.exc)
         THEN Reply(PyStr(InvalidContentMessage), << >>, NoLlmArgs, NoStore)
         ELSE Raises(last_message.exc, << >>, NoLlmArgs)
    ELSE CallLlm([context |-> MemoryContext(memories), content |-> last_message.val],
                 llm, StoreAttempt(last_message.val, llm.reply, add))

\* The result is [exc, messages, calls, llm_args, stored]: the exception
\* that leaves the node, the update it returns, the collaborators it
\* called, what it gave the LLM, and what it gave self.memory.add.
generate_response(st, llm, add) ==
    IF st.memory_retrieved.rate_limited
    THEN Reply(PyStr(RateLimitMessage), << >>, NoLlmArgs, NoStore)
    ELSE RespondTo(st.memory_retrieved.memories,
                   sanitize_input(LastContent(st.messages)), llm, add)

\* The add_messages reducer of AgentState.messages: the update is appended.
add_messages(left, right) == left \o right

(***************************************************************************)
(* Bounds of the model                                                     *)
(***************************************************************************)
MaxTicks == 2
MaxTurns == 2
MaxTextLen == 3

Users == {"alice", "bob"}

\* The steps by which the clock advances between calls: an entry is 60 s
\* old (kept) or 61 s old (expired) at the next call.
TickSteps == {60, 61}

(***************************************************************************)
(* Inputs: what the callers send and what the collaborators answer         *)
(***************************************************************************)
PlainText == << "h","i" >>
MarkupText == << "<","b",">","e","v","a","l","(","1",")" >>
TooLongText == [i \in 1..(max_input_length + 1) |-> "a"]
ReplyText == << "o","k" >>
ReplyMarkup == << "<","i",">","n","o" >>

\* The message lists given to graph.invoke: none, one user message (plain,
\* with markup, too long, not a str), and a conversation with history.
InputMessages ==
    { << >>,
      << Message("user", PyStr(PlainText)) >>,
      << Message("user", PyStr(MarkupText)) >>,
      << Message("user", PyStr(TooLongText)) >>,
      << Message("user", NotStr) >>,
      << Message("user", PyStr(MarkupText)), Message("assistant", PyStr(ReplyText)),
         Message("user", PyStr(PlainText)) >> }

Mem(id, text) == [isdict |-> TRUE, has_memory |-> TRUE, id |-> id, memory |-> PyStr(text)]
MemNotStr(id) == [isdict |-> TRUE, has_memory |-> TRUE, id |-> id, memory |-> NotStr]
MemNoKey(id)  == [isdict |-> TRUE, has_memory |-> FALSE, id |-> id, memory |-> NotStr]
NotADict      == [isdict |-> FALSE, has_memory |-> FALSE, id |-> 0, memory |-> NotStr]

\* What self.memory.search returns: nothing, one record, and a list with
\* records that are dropped and more than three that are kept.
SearchResults ==
    { << >>,
      << Mem(1, << "t","e","a" >>) >>,
      << Mem(1, << "<","b",">" >>), MemNotStr(2), Mem(3, << "c" >>), MemNoKey(4),
         NotADict, Mem(5, << "d" >>), Mem(6, << "e" >>) >> }

\* self.memory.search(...): it returns one of the lists or raises.
SearchOutcomes ==
    {[exc |-> "none", results |-> r] : r \in SearchResults}
      \cup {[exc |-> "Exception", results |-> << >>]}

\* self.anthropic.messages.create(...) and response.content[0].text: the
\* reply, or an exception.
LlmOutcomes ==
    {[exc |-> "none", reply |-> PyStr(ReplyMarkup)],
     [exc |-> "Exception", reply |-> PyStr(<< >>)]}

\* self.memory.add(...): it returns, raises ValueError, or raises another
\* exception (a connection error, a provider error).
AddOutcomes == {[exc |-> e] : e \in {"none"} \cup ExcKinds}

(***************************************************************************)
(* State                                                                   *)
(***************************************************************************)
VARIABLES
    now,            \* time.time()
    ticks,          \* how often the clock has advanced
    user_requests,  \* self.user_requests: user -> {'minute', 'hour'}
    admitted,       \* history: user -> the times of the calls that returned True
    ncalls,         \* history: user -> number of calls so far (counted up to ceiling + 2)
    first_call,     \* history: user -> time of the user's first call (-1: none yet)
    last_call,      \* history: the last call, [user, time, ok, before]
    pc,             \* where the graph is: idle, retrieve_memory, generate_response, END, raised
    state,          \* the AgentState of the turn
    input_messages, \* history: the messages given to graph.invoke
    turn,           \* history: what the collaborators were asked and answered this turn
    turns,          \* how many turns have started
    threads,        \* the threads inside _check_rate_limit: thread -> [pc, user_id, current_time]
    san             \* a direct call of _sanitize_input / _validate_memory_content:
                    \* [op, text, result, again]

rl_vars == << now, ticks, user_requests, admitted, ncalls, first_call, last_call >>
graph_vars == << pc, state, input_messages, turn, turns >>
vars == << now, ticks, user_requests, admitted, ncalls, first_call, last_call,
           pc, state, input_messages, turn, turns, threads, san >>

Threads == {"t1", "t2"}

NoCall == [user |-> "", time |-> -1, ok |-> FALSE, before |-> EmptyUserData]

\* The rate limiter's state and its history, as one record.
FreshLimiter ==
    [user_requests |-> [u \in Users |-> EmptyUserData],
     admitted      |-> [u \in Users |-> << >>],
     ncalls        |-> [u \in Users |-> 0],
     first_call    |-> [u \in Users |-> -1],
     last_call     |-> NoCall]

\* Mutant of LimiterCall: one pair of queues is shared by all users.
LimiterCall_SharedQueues(rl, user_id, t) ==
    LET r == check_rate_limit(rl.user_requests[user_id], t)
    IN  [user_requests |-> [u \in Users |-> r.data],
         admitted      |-> IF r.ok
                           THEN [rl.admitted EXCEPT ![user_id] = Append(@, t)]
                           ELSE rl.admitted,
         ncalls        |-> [rl.ncalls EXCEPT
                               ![user_id] = Min(@ + 1, requests_per_minute + 2)],
         first_call    |-> IF rl.first_call[user_id] = -1
                           THEN [rl.first_call EXCEPT ![user_id] = t]
                           ELSE rl.first_call,
         last_call     |-> [user |-> user_id, time |-> t, ok |-> r.ok,
                            before |-> rl.user_requests[user_id]]]

\* One call self._check_rate_limit(user_id) at time t.
LimiterCall(rl, user_id, t) ==
    LET r == check_rate_limit(rl.user_requests[user_id], t)
    IN  [user_requests |-> [rl.user_requests EXCEPT ![user_id] = r.data],
         admitted      |-> IF r.ok
                           THEN [rl.admitted EXCEPT ![user_id] = Append(@, t)]
                           ELSE rl.admitted,
         ncalls        |-> [rl.ncalls EXCEPT
                               ![user_id] = Min(@ + 1, requests_per_minute + 2)],
         first_call    |-> IF rl.first_call[user_id] = -1
                           THEN [rl.first_call EXCEPT ![user_id] = t]
                           ELSE rl.first_call,
         last_call     |-> [user |-> user_id, time |-> t, ok |-> r.ok,
                            before |-> rl.user_requests[user_id]]]

\* The limiter after the calls of a schedule, a sequence of [user, time]
\* with non-decreasing times, made one after the other.
RECURSIVE Replay(_, _, _)
Replay(rl, schedule, k) ==
    IF k > Len(schedule) THEN rl
    ELSE CHOOSE out \in
             { Replay(r, schedule, k + 1) :
                 r \in {LimiterCall(rl, schedule[k].user, schedule[k].time)} } : TRUE

Burst(user_id, t, n) == [i \in 1..n |-> [user |-> user_id, time |-> t]]

\* alice has made 19 calls in the current second.
NearMinuteCeiling == Replay(FreshLimiter, Burst("alice", 0, requests_per_minute - 1), 1)

\* alice has made 99 calls in the last hour, the first 20 of them at time
\* 21, the last 19 of them 12 s ago (each burst is replayed on the result
\* of the one before).
NearHourCeiling ==
    Replay(
      Replay(
        Replay(
          Replay(
            Replay(FreshLimiter, Burst("alice", 21, 20), 1),
            Burst("alice", 1000, 20), 1),
          Burst("alice", 2000, 20), 1),
        Burst("alice", 3000, 20), 1),
      Burst("alice", 3488, 19), 1)

SetLimiter(rl, t) ==
    /\ now = t
    /\ ticks = 0
    /\ user_requests = rl.user_requests
    /\ admitted = rl.admitted
    /\ ncalls = rl.ncalls
    /\ first_call = rl.first_call
    /\ last_call = rl.last_call

\* The limiter after construction, or after one of the two schedules.
LimiterInit ==
    \/ SetLimiter(FreshLimiter, 0)
    \/ SetLimiter(NearMinuteCeiling, 0)
    \/ SetLimiter(NearHourCeiling, 3500)

Limiter ==
    [user_requests |-> user_requests, admitted |-> admitted, ncalls |-> ncalls,
     first_call |-> first_call, last_call |-> last_call]

\* The limiter variables take the values of rl.
LimiterBecomes(rl) ==
    /\ user_requests' = rl.user_requests
    /\ admitted' = rl.admitted
    /\ ncalls' = rl.ncalls
    /\ first_call' = rl.first_call
    /\ last_call' = rl.last_call

NoTurn ==
    [calls |-> << >>, admit |-> FALSE, search |-> "not called", results |-> << >>,
     llm |-> "not called",
     add |-> "not called", reply |-> PyStr(<< >>), query |-> << >>,
     llm_args |-> NoLlmArgs, stored |-> NoStore]

NoState == [messages |-> << >>, user_id |-> "", memory_retrieved |-> NoSnapshot]

IdleThread == [pc |-> "idle", user_id |-> "", current_time |-> 0]

\* No direct call of the sanitizer or the validator has been made.
NoResult == [exc |-> "not called", val |-> << >>, warned |-> FALSE]
NoSanitizerCall == [op |-> "none", text |-> NotStr, result |-> NoResult, again |-> NoResult]

GraphInit ==
    /\ pc = "idle"
    /\ state = NoState
    /\ input_messages = << >>
    /\ turn = NoTurn
    /\ turns = 0
    /\ threads = [t \in Threads |-> IdleThread]

\* The limiter alone starts from any of the three limiter states.
InitLimiter == LimiterInit /\ GraphInit /\ san = NoSanitizerCall

\* The graph starts after construction or with alice one call below the
\* per-minute ceiling.
Init ==
    /\ SetLimiter(FreshLimiter, 0) \/ SetLimiter(NearMinuteCeiling, 0)
    /\ GraphInit
    /\ san = NoSanitizerCall

(***************************************************************************)
(* The clock                                                               *)
(***************************************************************************)
\* The clock advances.  _check_rate_limit, the first statement of a turn
\* after reading the message, is the only reader of the clock, so time
\* that passes during a turn is time that passes after it.
Tick ==
    /\ pc = "idle"
    /\ ticks < MaxTicks
    /\ \E d \in TickSteps : now' = now + d
    /\ ticks' = ticks + 1
    /\ UNCHANGED << user_requests, admitted, ncalls, first_call, last_call,
                    graph_vars, threads >>
    /\ UNCHANGED san

(***************************************************************************)
(* The rate limiter alone: calls of _check_rate_limit, one after the       *)
(* other, at non-decreasing times.                                         *)
(***************************************************************************)
\* self._check_rate_limit(user_id)
CheckRateLimit(user_id) ==
    /\ LimiterBecomes(LimiterCall(Limiter, user_id, now))
    /\ UNCHANGED << now, ticks, graph_vars, threads >>
    /\ UNCHANGED san

LimiterNext ==
    \/ Tick
    \/ \E u \in {"alice"} : CheckRateLimit(u)

SpecLimiter == InitLimiter /\ [][LimiterNext]_vars

(***************************************************************************)
(* The graph: retrieve_memory -> generate_response -> END                  *)
(***************************************************************************)
\* graph.invoke({"messages": [...], "user_id": user_id})
Invoke(user_id, messages) ==
    /\ pc = "idle"
    /\ turns < MaxTurns
    /\ turns' = turns + 1
    /\ pc' = "retrieve_memory"
    /\ state' = [messages |-> messages, user_id |-> user_id,
                 memory_retrieved |-> NoSnapshot]
    /\ input_messages' = messages
    /\ turn' = NoTurn
    /\ UNCHANGED << rl_vars, threads >>
    /\ UNCHANGED san

\* The node retrieve_memory.
RetrieveMemory ==
    /\ pc = "retrieve_memory"
    /\ \E search \in SearchOutcomes :
       \E rl \in {LimiterCall(Limiter, state.user_id, now)} :
       \E r \in {retrieve_memory(state, rl.last_call.ok, search)} :
             /\ LimiterBecomes(rl)
             /\ pc' = IF r.exc = "none" THEN "generate_response" ELSE "raised"
             /\ state' = IF r.exc = "none"
                         THEN [state EXCEPT !.memory_retrieved = r.memory_retrieved]
                         ELSE state
             /\ turn' = [turn EXCEPT
                            !.calls = r.calls,
                            !.admit = rl.last_call.ok,
                            !.search = IF "search" \in Range(r.calls)
                                       THEN search.exc ELSE "not called",
                            !.results = IF "search" \in Range(r.calls)
                                        THEN search.results ELSE << >>,
                            !.query = r.query]
    /\ UNCHANGED << now, ticks, input_messages, turns, threads >>
    /\ UNCHANGED san

\* The node generate_response, and END.
GenerateResponse ==
    /\ pc = "generate_response"
    /\ \E llm \in LlmOutcomes, add \in AddOutcomes :
       \E r \in {generate_response(state, llm, add)} :
             /\ pc' = IF r.exc = "none" THEN "END" ELSE "raised"
             /\ state' = [state EXCEPT !.messages = add_messages(@, r.messages)]
             /\ turn' = [turn EXCEPT
                            !.calls = @ \o r.calls,
                            !.llm = IF "llm" \in Range(r.calls)
                                    THEN llm.exc ELSE "not called",
                            !.reply = IF "llm" \in Range(r.calls) /\ llm.exc = "none"
                                      THEN llm.reply ELSE PyStr(<< >>),
                            !.add = IF "add" \in Range(r.calls)
                                    THEN add.exc ELSE "not called",
                            !.llm_args = r.llm_args,
                            !.stored = r.stored]
    /\ UNCHANGED << rl_vars, input_messages, turns, threads >>
    /\ UNCHANGED san

\* graph.invoke returns state to its caller; the turn state is dropped.
Return ==
    /\ pc = "END"
    /\ pc' = "idle"
    /\ state' = NoState
    /\ input_messages' = << >>
    /\ turn' = NoTurn
    /\ UNCHANGED << rl_vars, turns, threads >>
    /\ UNCHANGED san

Next ==
    \/ Tick
    \/ \E u \in Users, m \in InputMessages : Invoke(u, m)
    \/ RetrieveMemory
    \/ GenerateResponse
    \/ Return

Spec == Init /\ [][Next]_vars

(***************************************************************************)
(* The graph with a provider that may not answer.  The source gives        *)
(* neither Anthropic(...) (line 38) nor messages.create (lines 267-272) a  *)
(* timeout, so a call the provider never answers does not return.          *)
(***************************************************************************)
\* generate_response reaches the call of line 267 (the state is not
\* marked rate-limited, lines 238-241, and the message is a str within the
\* length limit, lines 112-118 and 252-258) and the provider never
\* answers: the node stays inside messages.create.
LlmNeverAnswers ==
    /\ pc = "generate_response"
    /\ ~state.memory_retrieved.rate_limited
    /\ LastContent(state.messages).isstr
    /\ ~TooLong(LastContent(state.messages).val)
    /\ pc' = "messages.create"
    /\ turn' = [turn EXCEPT !.calls = @ \o << "llm" >>, !.llm = "no answer"]
    /\ UNCHANGED << rl_vars, state, input_messages, turns, threads, san >>

NextNoAnswer ==
    \/ Next
    \/ LlmNeverAnswers

\* The node generate_response, once entered, runs: it stays inside the
\* provider call or it returns.
RunGenerateResponse == LlmNeverAnswers \/ GenerateResponse

\* graph.invoke runs the nodes one after the other without pause: a node
\* that has been entered runs.
SpecNoAnswer ==
    /\ Init
    /\ [][NextNoAnswer]_vars
    /\ WF_vars(RunGenerateResponse)

(***************************************************************************)
(* _check_rate_limit called from several threads: the method holds no      *)
(* lock, so the threads interleave between its statements.                 *)
(***************************************************************************)
ThreadAt(t, label) == threads[t].pc = label

Goto(t, label) == threads' = [threads EXCEPT ![t].pc = label]

\* A thread starts the call of a turn:
\* current_time = time.time(); user_data = self.user_requests[user_id]
BeginCheck(t, user_id) ==
    /\ ThreadAt(t, "idle")
    /\ turns < MaxTurns
    /\ turns' = turns + 1
    /\ threads' = [threads EXCEPT
                      ![t] = [pc |-> "evict_hour", user_id |-> user_id,
                              current_time |-> now]]
    /\ UNCHANGED << rl_vars, pc, state, input_messages, turn >>
    /\ UNCHANGED san

\* while user_data['hour'] and current_time - user_data['hour'][0] > 3600:
\*     user_data['hour'].popleft()
EvictHour(t) ==
    /\ ThreadAt(t, "evict_hour")
    /\ LET u == threads[t].user_id
           q == user_requests[u].hour
       IN  IF Len(q) > 0 /\ Expired(threads[t].current_time, q[1], HourHorizon)
           THEN /\ user_requests' = [user_requests EXCEPT ![u].hour = Tail(q)]
                /\ UNCHANGED threads
           ELSE /\ Goto(t, "evict_minute")
                /\ UNCHANGED user_requests
    /\ UNCHANGED << now, ticks, admitted, ncalls, first_call, last_call, graph_vars >>
    /\ UNCHANGED san

\* while user_data['minute'] and current_time - user_data['minute'][0] > 60:
\*     user_data['minute'].popleft()
EvictMinute(t) ==
    /\ ThreadAt(t, "evict_minute")
    /\ LET u == threads[t].user_id
           q == user_requests[u].minute
       IN  IF Len(q) > 0 /\ Expired(threads[t].current_time, q[1], MinuteHorizon)
           THEN /\ user_requests' = [user_requests EXCEPT ![u].minute = Tail(q)]
                /\ UNCHANGED threads
           ELSE /\ Goto(t, "check_minute")
                /\ UNCHANGED user_requests
    /\ UNCHANGED << now, ticks, admitted, ncalls, first_call, last_call, graph_vars >>
    /\ UNCHANGED san

\* The thread returns ok from the call.
ReturnFromCheck(t, ok) ==
    /\ Goto(t, "idle")
    /\ last_call' = [user |-> threads[t].user_id, time |-> threads[t].current_time,
                     ok |-> ok, before |-> EmptyUserData]
    /\ admitted' = IF ok
                   THEN [admitted EXCEPT
                            ![threads[t].user_id] = Append(@, threads[t].current_time)]
                   ELSE admitted

\* if len(user_data['minute']) >= ...: return False
CheckMinute(t) ==
    /\ ThreadAt(t, "check_minute")
    /\ IF MinuteFull(user_requests[threads[t].user_id].minute)
       THEN ReturnFromCheck(t, FALSE)
       ELSE Goto(t, "check_hour") /\ UNCHANGED << admitted, last_call >>
    /\ UNCHANGED << now, ticks, user_requests, ncalls, first_call, graph_vars >>
    /\ UNCHANGED san

\* if len(user_data['hour']) >= ...: return False
CheckHour(t) ==
    /\ ThreadAt(t, "check_hour")
    /\ IF HourFull(user_requests[threads[t].user_id].hour)
       THEN ReturnFromCheck(t, FALSE)
       ELSE Goto(t, "append_minute") /\ UNCHANGED << admitted, last_call >>
    /\ UNCHANGED << now, ticks, user_requests, ncalls, first_call, graph_vars >>
    /\ UNCHANGED san

\* user_data['minute'].append(current_time)
AppendMinute(t) ==
    /\ ThreadAt(t, "append_minute")
    /\ user_requests' = [user_requests EXCEPT
                            ![threads[t].user_id].minute = Append(@, threads[t].current_time)]
    /\ Goto(t, "append_hour")
    /\ UNCHANGED << now, ticks, admitted, ncalls, first_call, last_call, graph_vars >>
    /\ UNCHANGED san

\* user_data['hour'].append(current_time); return True
AppendHour(t) ==
    /\ ThreadAt(t, "append_hour")
    /\ user_requests' = [user_requests EXCEPT
                            ![threads[t].user_id].hour = Append(@, threads[t].current_time)]
    /\ ReturnFromCheck(t, TRUE)
    /\ UNCHANGED << now, ticks, ncalls, first_call, graph_vars >>
    /\ UNCHANGED san

ThreadsNext ==
    \/ Tick
    \/ \E t \in Threads : BeginCheck(t, "alice")
    \/ \E t \in Threads : EvictHour(t)
    \/ \E t \in Threads : EvictMinute(t)
    \/ \E t \in Threads : CheckMinute(t)
    \/ \E t \in Threads : CheckHour(t)
    \/ \E t \in Threads : AppendMinute(t)
    \/ \E t \in Threads : AppendHour(t)

SpecThreads == InitLimiter /\ [][ThreadsNext]_vars

(***************************************************************************)
(* _sanitize_input and _validate_memory_content called directly, on short  *)
(* texts over a small alphabet, on sample messages and on long texts.      *)
(***************************************************************************)
\* A letter, two characters html.escape rewrites, a space, a control
\* character.
TextAlphabet == {"a", "&", "<", " ", "\t"}

ShortTexts == UNION {[1..n -> TextAlphabet] : n \in 0..MaxTextLen}

ScriptSample ==
    << "<","s","c","r","i","p","t",">","a","l","e","r","t","(","1",")",
       "<","/","s","c","r","i","p","t",">","h","e","l","l","o" >>
Hello == << "h","e","l","l","o" >>

\* Messages with the other patterns, and one in which removing a match
\* leaves a new one.
SampleTexts ==
    { ScriptSample,
      Hello,
      << "J","a","v","a","S","c","r","i","p","t",":","x" >>,
      << "o","n","c","l","i","c","k"," ","=","1" >>,
      << "E","v","A","l"," ","(","1",")" >>,
      << "e","x","e","c","(","'","'",")" >>,
      << "e","v","e","v","a","l","(","a","l","(","1",")" >> }

LongText(n, first, rest) == [i \in 1..n |-> IF i = 1 THEN first ELSE rest]

LongTexts ==
    { LongText(max_memory_length, "a", "a"),
      LongText(max_memory_length + 1, "a", "a"),
      LongText(max_memory_length + 1, "&", "a"),
      LongText(max_memory_length + 1, " ", " "),
      LongText(max_input_length, "a", "a"),
      TooLongText }

SanitizerInputs ==
    {PyStr(t) : t \in ShortTexts \cup SampleTexts \cup LongTexts} \cup {NotStr}

InitSanitizer ==
    /\ SetLimiter(FreshLimiter, 0)
    /\ GraphInit
    /\ \E v \in SanitizerInputs : san = [NoSanitizerCall EXCEPT !.text = v]

\* self._sanitize_input(text)
SanitizeInput ==
    /\ san.op = "none"
    /\ san' = [san EXCEPT !.op = "sanitize", !.result = sanitize_input(san.text)]
    /\ UNCHANGED << rl_vars, graph_vars, threads >>

\* The sanitizer applied to what it returned, as generate_response does
\* when it validates the sanitized message for storage (lines 253, 279).
SanitizeAgain ==
    /\ san.op = "sanitize"
    /\ san.result.exc = "none"
    /\ san.again.exc = "not called"
    /\ san' = [san EXCEPT !.again = sanitize_input(PyStr(san.result.val))]
    /\ UNCHANGED << rl_vars, graph_vars, threads >>

\* self._validate_memory_content(content)
ValidateMemoryContent ==
    /\ san.op = "none"
    /\ san' = [san EXCEPT !.op = "validate",
                          !.result = validate_memory_content(san.text)]
    /\ UNCHANGED << rl_vars, graph_vars, threads >>

SanitizerNext ==
    \/ SanitizeInput
    \/ SanitizeAgain
    \/ ValidateMemoryContent

SpecSanitizer == InitSanitizer /\ [][SanitizerNext]_vars

(***************************************************************************)
(* Claims about the rate limiter                                           *)
(***************************************************************************)
\* The number of entries of log in the closed window [t - horizon, t].
WindowCount(log, t, horizon) ==
    Cardinality({j \in 1..Len(log) : t - horizon <= log[j] /\ log[j] <= t})

\* C2: for every user, the number of admitted calls in any trailing
\* 60-second window is at most requests_per_minute and in any trailing
\* 3600-second window at most requests_per_hour.  The windows that end at
\* the time of an admitted call are the fullest ones: a window that ends
\* at another time holds no more than the one ending at the last admitted
\* call before it.
C2_SlidingWindowBound ==
    \A u \in Users : \A t \in Range(admitted[u]) :
        /\ WindowCount(admitted[u], t, MinuteHorizon) <= requests_per_minute
        /\ WindowCount(admitted[u], t, HourHorizon) <= requests_per_hour

\* The hour window is full while the minute window has room, and a call
\* has just been refused.
C2_Witness ==
    /\ last_call.user = "alice" /\ ~last_call.ok /\ last_call.time = now
    /\ WindowCount(admitted["alice"], now, HourHorizon) = requests_per_hour
    /\ WindowCount(admitted["alice"], now, MinuteHorizon) < requests_per_minute

\* C3: the first requests_per_minute calls of a user with no recorded
\* requests, made within one minute of the first, all return True, and the
\* call after them, still within that minute, returns False.
C3_BurstUpToCeiling ==
    \A u \in Users :
        (last_call.user = u /\ last_call.time - first_call[u] <= MinuteHorizon)
        => /\ ncalls[u] <= requests_per_minute => last_call.ok
           /\ ncalls[u] = requests_per_minute + 1 => ~last_call.ok

\* The 21st call, made exactly 60 s after the first 20, is refused.
C3_Witness ==
    /\ last_call.user = "alice" /\ ~last_call.ok
    /\ ncalls["alice"] = requests_per_minute + 1
    /\ last_call.time - first_call["alice"] = MinuteHorizon

\* after is before without some of its leading entries, all of them older
\* than horizon at time t.
EvictionOnly(before, after, t, horizon) ==
    \E k \in 0..Len(before) :
        /\ after = SubSeq(before, k + 1, Len(before))
        /\ \A j \in 1..k : t - before[j] > horizon

\* C4: a call that returns False appends nothing: the user's queues after
\* it are the queues before it less expired entries.
C4_RejectedConsumesNoQuota ==
    (last_call.user \in Users /\ ~last_call.ok)
    => /\ EvictionOnly(last_call.before.minute, user_requests[last_call.user].minute,
                       last_call.time, MinuteHorizon)
       /\ EvictionOnly(last_call.before.hour, user_requests[last_call.user].hour,
                       last_call.time, HourHorizon)

\* A refused call that evicted expired entries from the minute queue.
C4_Witness ==
    /\ last_call.user = "alice" /\ ~last_call.ok
    /\ Len(user_requests["alice"].minute) < Len(last_call.before.minute)

\* C5: however concurrent calls for one user interleave, the user's
\* minute queue never holds more than requests_per_minute entries and the
\* hour queue never more than requests_per_hour.
C5_ConcurrentCallsKeepCeilings ==
    \A u \in Users :
        /\ Len(user_requests[u].minute) <= requests_per_minute
        /\ Len(user_requests[u].hour) <= requests_per_hour

\* The queue as the capacity check of the last call saw it: the queue the
\* call left, without the entry the call appended when it returned True.
CheckedQueue(q) == IF last_call.ok THEN SubSeq(q, 1, Len(q) - 1) ELSE q

\* The calls of user u that returned True before the last call.
PriorAdmitted(u) ==
    IF last_call.user = u /\ last_call.ok
    THEN SubSeq(admitted[u], 1, Len(admitted[u]) - 1)
    ELSE admitted[u]

C13_MinuteQueueEmptiesWithTime ==
    \A u \in Users :
        (Len(admitted[u]) > 0 /\ now - admitted[u][Len(admitted[u])] > MinuteHorizon)
        => /\ user_requests[u].minute = << >>
           /\ \A e \in Range(admitted[u]) :
                  now - e < HourHorizon => e \in Range(user_requests[u].hour)

\* C13, amended: eviction happens in the user's next call.  When that call
\* comes more than 60 s after the user's last admitted call, it leaves in
\* the minute queue nothing but its own timestamp (nothing when it returns
\* False), and in the hour queue exactly the admitted entries at most
\* 3600 s old.
C13_NextCallEmptiesMinuteQueue ==
    \A u \in Users :
        (/\ last_call.user = u
         /\ Len(PriorAdmitted(u)) > 0
         /\ last_call.time - PriorAdmitted(u)[Len(PriorAdmitted(u))] > MinuteHorizon)
        => /\ user_requests[u].minute =
                 IF last_call.ok THEN << last_call.time >> ELSE << >>
           /\ user_requests[u].hour =
                 SelectSeq(admitted[u], LAMBDA e : last_call.time - e <= HourHorizon)

\* A call more than 60 s after the last admitted one emptied the minute
\* queue and was refused, the hour queue being full.
C13_Witness ==
    /\ last_call.user = "alice" /\ ~last_call.ok
    /\ Len(last_call.before.minute) > 0
    /\ user_requests["alice"].minute = << >>
    /\ Len(user_requests["alice"].hour) = requests_per_hour

\* q is non-decreasing from head to tail.
NonDecreasing(q) == \A i \in 1..(Len(q) - 1) : q[i] <= q[i + 1]

C23_OtherUsersUntouched ==
    [][/\ \A u \in Users :
              u # last_call'.user => user_requests'[u] = user_requests[u]
       /\ \A u \in Users :
              (last_call'.user = u /\ ~last_call'.ok)
              => \/ WindowCount(admitted'[u], last_call'.time, MinuteHorizon)
                        >= requests_per_minute
                 \/ WindowCount(admitted'[u], last_call'.time, HourHorizon)
                        >= requests_per_hour]_vars

\* bob is admitted while alice's minute queue is full.
C23_Witness ==
    /\ last_call.user = "bob" /\ last_call.ok
    /\ Len(user_requests["alice"].minute) = requests_per_minute
    /\ user_requests["bob"].minute = << last_call.time >>

\* C24: with calls made one after the other at non-decreasing times,
\* every user's minute queue holds at most requests_per_minute entries,
\* the hour queue at most requests_per_hour, and every timestamp of the
\* minute queue is also in the hour queue.
C24_CeilingsAndMinuteWithinHour ==
    \A u \in Users :
        /\ Len(user_requests[u].minute) <= requests_per_minute
        /\ Len(user_requests[u].hour) <= requests_per_hour
        /\ Range(user_requests[u].minute) \subseteq Range(user_requests[u].hour)

\* Both queues are full, and the hour queue holds entries the minute
\* queue has lost.
C24_Witness ==
    /\ Len(user_requests["alice"].minute) = requests_per_minute
    /\ Len(user_requests["alice"].hour) = requests_per_hour
    /\ Range(user_requests["alice"].hour) # Range(user_requests["alice"].minute)

(***************************************************************************)
(* Claims about the turn pipeline                                          *)
(***************************************************************************)
LastMessage == state.messages[Len(state.messages)]

\* The messages at END are the input messages and one assistant message.
OneNewAssistantMessage ==
    /\ Len(state.messages) = Len(input_messages) + 1
    /\ SubSeq(state.messages, 1, Len(input_messages)) = input_messages
    /\ LastMessage.role = "assistant"

\* C1: whatever the admission, the sanitization and the collaborators do,
\* no node raises, the input messages stay as they are while the turn
\* runs, and at END the messages are the input messages followed by
\* exactly one assistant message.
C1_AlwaysOneAssistantMessage ==
    /\ pc # "raised"
    /\ pc \in {"retrieve_memory", "generate_response"} => state.messages = input_messages
    /\ pc = "END" => OneNewAssistantMessage

\* A turn with history in which the search and the storage both raised.
C1_Witness ==
    /\ pc = "END"
    /\ Len(input_messages) = 3
    /\ turn.search = "Exception"
    /\ turn.add = "Exception"

\* C6: in a turn where the LLM call returned and the storage step then
\* failed (a validation or self.memory.add raised), the assistant message
\* is the LLM's reply.
C6_StorageFailureKeepsReply ==
    (pc \in {"END", "raised"} /\ turn.llm = "none" /\ turn.add # "none")
    => /\ pc = "END"
       /\ LastMessage.content = turn.reply

\* C7: a turn the rate limiter refuses ends with the rate-limit apology as
\* its one new message, with an empty memory snapshot, and calls neither
\* the search, the LLM nor the storage.
C7_RateLimitedTurn ==
    (pc \in {"generate_response", "END", "raised"} /\ ~turn.admit)
    => /\ pc # "raised"
       /\ state.memory_retrieved.memories = << >>
       /\ state.memory_retrieved.count = 0
       /\ turn.calls = << "admit" >>
       /\ turn.stored = NoStore
       /\ pc = "END" => /\ OneNewAssistantMessage
                        /\ LastMessage.content = PyStr(RateLimitMessage)

\* A refused turn whose message the sanitizer would reject.
C7_Witness ==
    /\ pc = "END"
    /\ ~turn.admit
    /\ LastContent(input_messages) = PyStr(TooLongText)

\* C8: when the LLM call raises, the turn ends with the
\* technical-difficulties message and self.memory.add is not called.
C8_LlmFailure ==
    (pc \in {"END", "raised"} /\ turn.llm \in ExcKinds)
    => /\ pc = "END"
       /\ LastMessage.content = PyStr(TechnicalDifficultiesMessage)
       /\ "add" \notin Range(turn.calls)
       /\ turn.stored = NoStore

\* An admitted turn in which the LLM call raised.
C8_Witness ==
    /\ pc = "END"
    /\ turn.admit
    /\ turn.llm = "Exception"

\* C9: when the search raises in an admitted turn, the snapshot is empty
\* and not marked rate-limited, the LLM is called, and when the LLM
\* answers, its reply is the assistant message of the turn.
C9_SearchFailure ==
    (pc \in {"END", "raised"} /\ turn.search \in ExcKinds)
    => /\ pc = "END"
       /\ state.memory_retrieved = EmptySnapshot
       /\ "llm" \in Range(turn.calls)
       /\ turn.llm = "none" => LastMessage.content = turn.reply

\* The sanitizer rejects content: it is not a str or is longer than
\* max_input_length.
Unsanitizable(content) == ~content.isstr \/ Len(content.val) > max_input_length

\* C10: in an admitted turn whose last message the sanitizer rejects, the
\* snapshot is empty, the search is not called, and the turn ends with the
\* invalid-content message without a call of the LLM or of the storage.
C10_InvalidContent ==
    (/\ pc \in {"generate_response", "END", "raised"}
     /\ turn.admit
     /\ Unsanitizable(LastContent(input_messages)))
    => /\ pc # "raised"
       /\ state.memory_retrieved = EmptySnapshot
       /\ turn.calls = << "admit" >>
       /\ turn.stored = NoStore
       /\ pc = "END" => LastMessage.content = PyStr(InvalidContentMessage)

\* An admitted turn with a message that is too long.
C10_Witness ==
    /\ pc = "END"
    /\ turn.admit
    /\ LastContent(input_messages) = PyStr(TooLongText)

\* The three fixed replies.
FixedReplies ==
    {PyStr(RateLimitMessage), PyStr(InvalidContentMessage),
     PyStr(TechnicalDifficultiesMessage)}

\* C11: no node lets an exception out, and the assistant message a turn
\* ends with is the reply the LLM gave in that turn or one of the three
\* fixed replies.
C11_FixedRepliesOnly ==
    /\ pc # "raised"
    /\ pc = "END" =>
         \/ LastMessage.content \in FixedReplies
         \/ turn.llm = "none" /\ LastMessage.content = turn.reply

\* The LLM answered, the storage raised, and the turn ended with a fixed
\* reply in place of the LLM's.
C11_Witness ==
    /\ pc = "END"
    /\ turn.llm = "none"
    /\ turn.add = "Exception"
    /\ LastMessage.content = PyStr(TechnicalDifficultiesMessage)
    /\ LastMessage.content # turn.reply

\* The records of results that are dicts with a content the validator
\* accepts, in the order of results, each with its validated content.
RECURSIVE PassingRecords(_)
PassingRecords(results) ==
    IF results = << >> THEN << >>
    ELSE LET m == Head(results)
         IN  (IF m.isdict /\ m.has_memory
                   /\ validate_memory_content(m.memory).exc = "none"
              THEN << [m EXCEPT !.memory =
                                  PyStr(validate_memory_content(m.memory).val)] >>
              ELSE << >>)
             \o PassingRecords(Tail(results))

\* C20: in an admitted turn in which the search returned, the snapshot's
\* list is the returned records whose content passes the validator, in
\* the returned order and with the validated content, and its count is the
\* length of that list.
C20_SnapshotIsValidatedSubsequence ==
    (pc \in {"generate_response", "END"} /\ turn.admit /\ turn.search = "none")
    => /\ state.memory_retrieved.memories = PassingRecords(turn.results)
       /\ state.memory_retrieved.count = Len(state.memory_retrieved.memories)
       /\ ~state.memory_retrieved.rate_limited

\* The search returned seven records; three were dropped and four kept,
\* the first of them with rewritten content.
C20_Witness ==
    /\ pc = "generate_response"
    /\ turn.search = "none"
    /\ Len(turn.results) = 7
    /\ state.memory_retrieved.count = 4
    /\ state.memory_retrieved.memories[1].memory # turn.results[1].memory
    /\ state.memory_retrieved.memories[4].id = turn.results[7].id

\* The place of a collaborator in the order admission check, search, LLM
\* completion, storage.
CallRank(c) ==
    CASE c = "admit"  -> 1
      [] c = "search" -> 2
      [] c = "llm"    -> 3
      [] c = "add"    -> 4

\* C22: the collaborator calls of a turn come in the order admission
\* check, self.memory.search, LLM completion, self.memory.add, each at most
\* once, and the admission check is the first call of the turn; the storage
\* is called only when the LLM call of that turn returned, and the LLM only
\* when retrieve_memory has written the memory snapshot.
C22_CallsInStageOrder ==
    /\ \A i, j \in 1..Len(turn.calls) :
           i < j => CallRank(turn.calls[i]) < CallRank(turn.calls[j])
    /\ pc \in {"generate_response", "END", "raised"} => turn.calls[1] = "admit"
    /\ "add" \in Range(turn.calls) => turn.llm = "none"
    /\ "llm" \in Range(turn.calls) => state.memory_retrieved.set

\* A turn in which all four collaborators were called and the storage
\* returned.
C22_Witness ==
    /\ pc = "END"
    /\ turn.calls = << "admit", "search", "llm", "add" >>
    /\ turn.llm = "none"
    /\ turn.add = "none"

\* q is what the turn's admission check made of the queue before: the
\* queue less expired leading entries, followed by the time of the call
\* exactly once when the call returned True and by nothing when it
\* returned False.
SlotsConsumed(before, q, t, horizon, ok) ==
    IF ok
    THEN /\ Len(q) >= 1
         /\ q[Len(q)] = t
         /\ EvictionOnly(before, SubSeq(q, 1, Len(q) - 1), t, horizon)
    ELSE EvictionOnly(before, q, t, horizon)

\* C25: from its admission check to its end, an admitted turn has added
\* exactly one entry, the time of the check, to its user's minute queue and
\* to the hour queue, whether it ends with the LLM's reply, the
\* invalid-content message or the technical-difficulties message; a
\* rate-limited turn has added none.
C25_AdmittedTurnTakesOneSlot ==
    (pc \in {"generate_response", "END", "raised"})
    => /\ last_call.user = state.user_id
       /\ last_call.ok = turn.admit
       /\ SlotsConsumed(last_call.before.minute, user_requests[state.user_id].minute,
                        last_call.time, MinuteHorizon, turn.admit)
       /\ SlotsConsumed(last_call.before.hour, user_requests[state.user_id].hour,
                        last_call.time, HourHorizon, turn.admit)
       /\ pc = "END" =>
              (LastMessage.content = PyStr(RateLimitMessage) <=> ~turn.admit)

\* An admitted turn that ended with the invalid-content message took the
\* last free slot of the minute.
C25_Witness ==
    /\ pc = "END"
    /\ turn.admit
    /\ LastMessage.content = PyStr(InvalidContentMessage)
    /\ Len(last_call.before.minute) = requests_per_minute - 1
    /\ Len(user_requests[state.user_id].minute) = requests_per_minute

\* C18: every admitted turn that reaches generate_response ends with a
\* response, whether or not the provider answers.
C18_AdmittedTurnEnds ==
    (pc = "generate_response" /\ turn.admit) ~> (pc = "END")

(***************************************************************************)
(* Claims about the sanitizer and the validator                            *)
(***************************************************************************)
\* C15: _sanitize_input of <script>alert(1)</script>hello returns hello
\* and writes the warning to the security log.
C15_ScriptSampleBecomesHello ==
    (san.op = "sanitize" /\ san.text = PyStr(ScriptSample))
    => /\ san.result.exc = "none"
       /\ san.result.val = Hello
       /\ san.result.warned

\* The text after control-character stripping and HTML escaping holds a
\* match of one of the dangerous patterns.
ThreatRemoved(x) ==
    RemoveDangerous(HtmlEscape(StripControl(x))) # HtmlEscape(StripControl(x))

\* C16: for a text x within the length limit in which no dangerous pattern
\* is found after escaping, neither in x nor in what the sanitizer made of
\* it, the sanitizer applied to its own result returns that result.
C16_SanitizeIdempotent ==
    (/\ san.op = "sanitize"
     /\ san.again.exc # "not called"
     /\ ~ThreatRemoved(san.text.val)
     /\ ~ThreatRemoved(san.result.val))
    => /\ san.again.exc = "none"
       /\ san.again.val = san.result.val

\* The text the validator hands to the sanitizer when it truncates.
TruncatedForm(x) == SubSeq(x, 1, max_memory_length) \o TruncationMarker

\* C17 as stated: for a str longer than max_memory_length the validator
\* returns exactly its first max_memory_length characters followed by the
\* truncation marker, without raising; a str that is not longer is not
\* truncated.
C17_TruncatedToExactPrefix ==
    (san.op = "validate" /\ san.text.isstr)
    => IF Len(san.text.val) > max_memory_length
       THEN /\ san.result.exc = "none"
            /\ san.result.val = TruncatedForm(san.text.val)
       ELSE san.result = sanitize_input(san.text)

\* C17, amended: for a str longer than max_memory_length the validator
\* returns, without raising, what the sanitizer makes of its first
\* max_memory_length characters followed by the truncation marker, which
\* is that very text when the str holds word characters only; a str that
\* is not longer is sanitized as it is.
C17_TruncatedThenSanitized ==
    (san.op = "validate" /\ san.text.isstr)
    => IF Len(san.text.val) > max_memory_length
       THEN /\ san.result.exc = "none"
            /\ san.result = sanitize_input(PyStr(TruncatedForm(san.text.val)))
            /\ Range(san.text.val) \subseteq WordChars
                   => san.result.val = TruncatedForm(san.text.val)
       ELSE san.result = sanitize_input(san.text)

\* The validator truncated a text the sanitizer then rewrote.
C17_Witness ==
    /\ san.op = "validate"
    /\ san.text.isstr
    /\ Len(san.text.val) > max_memory_length
    /\ san.result.exc = "none"
    /\ san.result.val # TruncatedForm(san.text.val)

\* C19: the sanitizer writes its warning exactly when a dangerous pattern
\* was removed from the control-stripped, escaped text; stripping control
\* characters and escaping alone write none.
C19_WarningOnlyForThreats ==
    (san.op = "sanitize" /\ san.result.exc = "none")
    => (san.result.warned <=> ThreatRemoved(san.text.val))

\* A match of one of the five dangerous patterns starts at position i of s.
DangerousAt(s, i) ==
    \/ MatchScript(s, i) > 0
    \/ MatchJavascript(s, i) > 0
    \/ MatchOnHandler(s, i) > 0
    \/ MatchEval(s, i) > 0
    \/ MatchExec(s, i) > 0

\* C21: what _sanitize_input returns for an accepted input holds no match
\* of any of the five dangerous patterns, also where the removal of one
\* match brings the parts of another together.
C21_NoDangerousPatternInOutput ==
    (san.op = "sanitize" /\ san.result.exc = "none")
    => \A i \in 1..Len(san.result.val) : ~DangerousAt(san.result.val, i)

====
